---------------------------- MODULE Spec2Model ----------------------------
(***************************************************************************)
(* A model of the CNN visualizer: the CNNDemo controller                   *)
(* (src/src/components/CNNDemo/index.tsx), the InputPanel drawing surface, *)
(* the helpers of src/src/utils/cnn-model.ts and the ConvAnimation replay  *)
(* component.                                                              *)
(*                                                                         *)
(* Conventions.                                                            *)
(*  - An image is a record [width, height, fg]: fg is the set of pixels    *)
(*    <<x, y>> whose channels are 255; every other pixel is 0.             *)
(*    A grid entry, channel / 255, is then exactly 0 or 1.                 *)
(*  - prediction.input and featureMaps[l].input record the image handed    *)
(*    to predict and getActivation; the weights of a model are the number  *)
(*    of optimizer steps applied to it, the kernel numbers a function of   *)
(*    that number.                                                         *)
(*  - The browser runs one task at a time and drains the microtask queue   *)
(*    before the next task: an action is one task together with the        *)
(*    microtasks it queues, except handlePredict, whose two awaits are     *)
(*    kept as steps guarded by NoMicrotask.                                *)
(***************************************************************************)
EXTENDS Integers, Sequences, FiniteSets, TLC

VARIABLES
    \* ---- CNNDemo (index.tsx:10-23)
    model,            \* handle of the current tf.LayersModel
    data,             \* "null" | "loaded"
    isDataLoading,
    isTraining,
    logs,             \* sequence of [epoch |-> n]
    currentImage,     \* NoImage or an image
    prediction,       \* NoPrediction or [label, probabilities, input]
    featureMaps,      \* layer name -> [input, model]; {} is the empty function
    trainingProgress,
    conv1Weights,     \* [kernel, bias]
    inputGrid,        \* NoGrid or a 10 x 10 grid
    \* ---- the heap and the calls in flight
    weights,          \* model handle -> number of optimizer steps applied to it
    nextModel,        \* the handle the next createModel() returns
    fits,             \* the train() calls in flight
    runs,             \* train() calls started so far
    predictPc,        \* "idle" | "awaitPredict" | "awaitMaps"
    predictCall,      \* locals of the handlePredict call in flight
    lastAlert,        \* the last alert() raised
    \* ---- InputPanel
    canvas,           \* the drawing buffer, at preview resolution
    isDrawing,
    pendingUpload,    \* NoImage, or the image whose onload has not fired yet
    \* ---- ConvAnimation
    mounted,
    activation,       \* the activation prop
    step,
    isPlaying,
    speed,
    timer,            \* NoTimer or [delay |-> ms]: the live setInterval
    interacting,      \* the user is still at the replay controls
    \* ---- a helper of cnn-model.ts called on its own
    helperCall,       \* NoCall or [fn, ...arguments]
    helperRet         \* NoCall until the call has returned, then its result

vars == << model, data, isDataLoading, isTraining, logs, currentImage,
           prediction, featureMaps, trainingProgress, conv1Weights, inputGrid,
           weights, nextModel, fits, runs, predictPc, predictCall, lastAlert,
           canvas, isDrawing, pendingUpload,
           mounted, activation, step, isPlaying, speed, timer, interacting,
           helperCall, helperRet >>

demoVars == << model, data, isDataLoading, isTraining, logs, currentImage,
               prediction, featureMaps, trainingProgress, weights, nextModel,
               fits, runs, predictPc, predictCall, lastAlert >>

panelVars == << canvas, isDrawing, pendingUpload >>

replayVars == << mounted, activation, step, isPlaying, speed, timer, interacting >>

helperVars == << helperCall, helperRet >>

-----------------------------------------------------------------------------
(* Bounds of the model *)

MaxRuns == 2
MaxModels == 2
NumBatches == 1

(* Program constants *)

IMAGE_WIDTH == 28
IMAGE_HEIGHT == 28
Epochs == 5
KernelSize == 5
NumFilters == 8
GridSize == 10
BoxSize == 20
Threshold == 50
DefaultSpeed == 500

\* null and the absent values, as records so that they compare with records
NoImage == [null |-> "image"]
NoPrediction == [null |-> "prediction"]
NoTimer == [null |-> "timer"]
NoCall == [null |-> "call"]
NoGrid == << >>

Min(S) == CHOOSE m \in S : \A n \in S : m <= n
Max(S) == CHOOSE m \in S : \A n \in S : m >= n

Rect(x0, y0, x1, y1) == { <<x, y>> : x \in x0..x1, y \in y0..y1 }

Image(fg) == [width |-> IMAGE_WIDTH, height |-> IMAGE_HEIGHT, fg |-> fg]

BlankImage == Image({})

\* what the user can draw in one stroke, and the files the user can upload
Strokes == { Rect(10, 4, 11, 13) }
Uploads == { Image(Rect(8, 12, 23, 15)) }

\* the probability vectors (in per cent) the network may return
ProbVectors == { <<0, 5, 60, 5, 0, 10, 5, 5, 5, 5>>,
                 <<0, 0, 0, 40, 0, 0, 20, 40, 0, 0>> }


-----------------------------------------------------------------------------
(* cnn-model.ts *)

\* The data of the two weight tensors of layer conv1 of model m after v
\* optimizer steps: kernelData is the flat [5, 5, 1, 8] tensor, biasData the
\* [8] tensor.  The numbers stand for the library's values: they differ from
\* one model to the next and from one optimizer step to the next.
Conv1KernelData(m, v) ==
    [k \in 0..(KernelSize * KernelSize * NumFilters - 1) |->
        (((k \div NumFilters) * (v + 2) + 2 * v + 3 * m + (k % NumFilters)) % 7) - 3]

Conv1BiasData(m, v) ==
    [f \in 0..(NumFilters - 1) |-> IF v = 0 THEN 0 ELSE ((v + m + f) % 5) - 2]

\* getConv1Weights: the first filter (index 0) of conv1 and its bias
getConv1Weights(m, v) ==
    LET kernelData == Conv1KernelData(m, v)
        biasData == Conv1BiasData(m, v)
    IN  [kernel |-> [i \in 0..(KernelSize - 1) |->
                       [j \in 0..(KernelSize - 1) |->
                          kernelData[(i * KernelSize + j) * NumFilters]]],
         bias |-> biasData[0]]

\* a read past the end of a typed array, and the quotient undefined / 255
Undefined == -1
NaN == -2

\* data[idx] of an ImageData: the channel at flat index idx (RGBA, row-major).
\* The canvases are filled with opaque black before anything is drawn on
\* them, so the alpha channel is 255 everywhere.
DataAt(img, idx) ==
    IF idx < 0 \/ idx >= img.width * img.height * 4
    THEN Undefined
    ELSE LET p == idx \div 4
         IN  IF idx % 4 = 3 \/ << p % img.width, p \div img.width >> \in img.fg
             THEN 255
             ELSE 0

\* the index read by iteration (i, j) of the loops of imageDataToGrid
GridIdx(imageData, size, i, j) ==
    LET startX == (imageData.width - size) \div 2
        startY == (imageData.height - size) \div 2
        x == startX + j
        y == startY + i
    IN  (y * imageData.width + x) * 4

\* the same loops reading the alpha channel
imageDataToGrid_Alpha(imageData, size) ==
    [i \in 0..(size - 1) |->
       [j \in 0..(size - 1) |->
          LET d == DataAt(imageData, GridIdx(imageData, size, i, j) + 3)
          IN  IF d = Undefined THEN NaN ELSE d \div 255]]

\* imageDataToGrid: the centered size x size window, red channel
imageDataToGrid(imageData, size) ==
    [i \in 0..(size - 1) |->
       [j \in 0..(size - 1) |->
          LET d == DataAt(imageData, GridIdx(imageData, size, i, j))
          IN  IF d = Undefined THEN NaN ELSE d \div 255]]

\* ctx.drawImage(src, sx, sy, sw, sh, dx, dy, dw, dh) on a black canvas,
\* without smoothing: destination pixel (dx + u, dy + v) takes the source
\* pixel under its centre
DrawImage(src, sx, sy, sw, sh, dx, dy, dw, dh) ==
    { << dx + u, dy + v >> : << u, v >> \in
        { q \in (0..(dw - 1)) \X (0..(dh - 1)) :
            << sx + ((2 * q[1] + 1) * sw) \div (2 * dw),
               sy + ((2 * q[2] + 1) * sh) \div (2 * dh) >> \in src.fg } }

\* preprocessImage handing back a fresh black canvas when nothing is drawn
preprocessImage_FreshCanvas(imageData) ==
    LET over == { p \in imageData.fg : 255 > Threshold }
        minX == Min({imageData.width} \cup { p[1] : p \in over })
        maxX == Max({0} \cup { p[1] : p \in over })
        minY == Min({imageData.height} \cup { p[2] : p \in over })
        maxY == Max({0} \cup { p[2] : p \in over })
        contentWidth == maxX - minX + 1
        contentHeight == maxY - minY + 1
        longest == Max({contentWidth, contentHeight})
        scaledWidth == (contentWidth * BoxSize) \div longest
        scaledHeight == (contentHeight * BoxSize) \div longest
        dx == (28 - scaledWidth) \div 2
        dy == (28 - scaledHeight) \div 2
    IN  [width |-> 28, height |-> 28,
         fg |-> IF over = {}
                THEN {}
                ELSE DrawImage(imageData, minX, minY, contentWidth, contentHeight,
                               dx, dy, scaledWidth, scaledHeight)]

\* preprocessImage: crop to the bounding box of the pixels above the
\* threshold, scale to fit 20 x 20, centre in 28 x 28
preprocessImage(imageData) ==
    LET over == { p \in imageData.fg : 255 > Threshold }
        minX == Min({imageData.width} \cup { p[1] : p \in over })
        maxX == Max({0} \cup { p[1] : p \in over })
        minY == Min({imageData.height} \cup { p[2] : p \in over })
        maxY == Max({0} \cup { p[2] : p \in over })
        hasPixels == over # {}
        contentWidth == maxX - minX + 1
        contentHeight == maxY - minY + 1
        \* scale = min(20 / contentWidth, 20 / contentHeight), and
        \* floor(content * scale), in exact arithmetic
        longest == Max({contentWidth, contentHeight})
        scaledWidth == (contentWidth * BoxSize) \div longest
        scaledHeight == (contentHeight * BoxSize) \div longest
        dx == (28 - scaledWidth) \div 2
        dy == (28 - scaledHeight) \div 2
    IN  IF ~hasPixels
        THEN imageData
        ELSE [width |-> 28, height |-> 28,
              fg |-> DrawImage(imageData, minX, minY, contentWidth, contentHeight,
                               dx, dy, scaledWidth, scaledHeight)]

\* probabilities.lastIndexOf(Math.max(...probabilities))
IndexOfMax_Last(probabilities) ==
    LET m == Max({ probabilities[i] : i \in 1..Len(probabilities) })
    IN  Max({ i \in 1..Len(probabilities) : probabilities[i] = m }) - 1

\* probabilities.indexOf(Math.max(...probabilities)), 0-based
IndexOfMax(probabilities) ==
    LET m == Max({ probabilities[i] : i \in 1..Len(probabilities) })
    IN  Min({ i \in 1..Len(probabilities) : probabilities[i] = m }) - 1


-----------------------------------------------------------------------------
(* CNNDemo: index.tsx *)

LayersToVisualize == {"conv1", "pool1", "conv2", "pool2"}

EmptyMaps == [l \in {} |-> NoImage]

\* the panels are rendered once the data load has settled (index.tsx:198)
Rendered == ~isDataLoading

\* no continuation of an async handler is queued: the next task may start
NoMicrotask == predictPc = "idle"

\* the disabled prop of InputPanel (index.tsx:206)
disabled == isTraining

InitDemo ==
    /\ model = 1
    /\ nextModel = 2
    /\ weights = [m \in 1..MaxModels |-> 0]
    /\ conv1Weights = getConv1Weights(1, 0)
    /\ data = "null"
    /\ isDataLoading = TRUE
    /\ isTraining = FALSE
    /\ logs = << >>
    /\ currentImage = NoImage
    /\ prediction = NoPrediction
    /\ featureMaps = EmptyMaps
    /\ trainingProgress = 0
    /\ inputGrid = NoGrid
    /\ fits = {}
    /\ runs = 0
    /\ predictPc = "idle"
    /\ predictCall = NoCall
    /\ lastAlert = "none"

InitPanel ==
    /\ canvas = {}
    /\ isDrawing = FALSE
    /\ pendingUpload = NoImage

\* the replay component is not mounted
ReplayUnmounted ==
    /\ mounted = FALSE
    /\ activation = "relu"
    /\ step = 0
    /\ isPlaying = FALSE
    /\ speed = DefaultSpeed
    /\ timer = NoTimer
    /\ interacting = TRUE

\* no helper is being called on its own
NoHelper ==
    /\ helperCall = NoCall
    /\ helperRet = NoCall

Init == InitDemo /\ InitPanel /\ ReplayUnmounted /\ NoHelper

\* init (index.tsx:36-46): mnistData.load() settles
InitLoaded(ok) ==
    /\ isDataLoading
    /\ data' = IF ok THEN "loaded" ELSE "null"
    /\ lastAlert' = IF ok THEN lastAlert ELSE "dataLoadFailed"
    /\ isDataLoading' = FALSE
    /\ UNCHANGED << model, isTraining, logs, currentImage, prediction,
                    featureMaps, trainingProgress, conv1Weights, inputGrid,
                    weights, nextModel, fits, runs, predictPc, predictCall >>
    /\ UNCHANGED panelVars
    /\ UNCHANGED replayVars
    /\ UNCHANGED helperVars

\* handleImageReady without the two invalidations of lines 107-108
handleImageReady_KeepResult(imageData) ==
    /\ currentImage' = imageData
    /\ inputGrid' = imageDataToGrid(imageData, GridSize)
    /\ UNCHANGED << model, data, isDataLoading, isTraining, logs, prediction,
                    featureMaps, trainingProgress, conv1Weights, weights,
                    nextModel, fits, runs, predictPc, predictCall, lastAlert >>

\* handleImageReady (index.tsx:105-113)
handleImageReady(imageData) ==
    /\ currentImage' = imageData
    /\ prediction' = NoPrediction
    /\ featureMaps' = EmptyMaps
    /\ inputGrid' = imageDataToGrid(imageData, GridSize)
    /\ UNCHANGED << model, data, isDataLoading, isTraining, logs,
                    trainingProgress, conv1Weights, weights, nextModel, fits,
                    runs, predictPc, predictCall, lastAlert >>

\* a handleStartTraining without the finally block's setIsTraining(false)
TrainingFinally_StillTraining(f, m) ==
    /\ UNCHANGED isTraining
    /\ trainingProgress' = 100
    /\ conv1Weights' = getConv1Weights(m, weights[m])
    /\ fits' = fits \ {f}

\* a finally block without the last fetch of the conv1 weights
TrainingFinally_NoRefetch(f, m) ==
    /\ isTraining' = FALSE
    /\ trainingProgress' = 100
    /\ UNCHANGED conv1Weights
    /\ fits' = fits \ {f}

\* the finally block of handleStartTraining (index.tsx:83-88)
TrainingFinally(f, m) ==
    /\ isTraining' = FALSE
    /\ trainingProgress' = 100
    /\ conv1Weights' = getConv1Weights(m, weights[m])
    /\ fits' = fits \ {f}

\* handleStartTraining with a Start button that stays enabled while training
handleStartTraining_NoDisable ==
    /\ Rendered /\ NoMicrotask
    /\ data = "loaded"
    /\ runs < MaxRuns
    /\ runs' = runs + 1
    /\ isTraining' = TRUE
    /\ trainingProgress' = 0
    /\ weights' = [weights EXCEPT ![model] = @ + 1]
    /\ fits' = fits \cup { [call |-> runs', model |-> model,
                              initialEpoch |-> Len(logs), epoch |-> 0, batch |-> 1] }
    /\ UNCHANGED << model, data, isDataLoading, logs, currentImage, prediction,
                    featureMaps, conv1Weights, inputGrid, nextModel, predictPc,
                    predictCall, lastAlert >>
    /\ UNCHANGED panelVars
    /\ UNCHANGED replayVars
    /\ UNCHANGED helperVars

\* handleStartTraining up to the first yield of model.fit (index.tsx:51-61,
\* cnn-model.ts:92-104): the first batch runs, then tf.nextFrame() is awaited
handleStartTraining ==
    /\ Rendered /\ NoMicrotask
    /\ ~isTraining                     \* the button is disabled (TrainingPanel.tsx:114)
    /\ data = "loaded"                 \* if (!model || !data) return
    /\ runs < MaxRuns
    /\ runs' = runs + 1
    /\ isTraining' = TRUE
    /\ trainingProgress' = 0
    /\ weights' = [weights EXCEPT ![model] = @ + 1]
    /\ fits' = fits \cup { [call |-> runs', model |-> model,
                              initialEpoch |-> Len(logs), epoch |-> 0, batch |-> 1] }
    /\ UNCHANGED << model, data, isDataLoading, logs, currentImage, prediction,
                    featureMaps, conv1Weights, inputGrid, nextModel, predictPc,
                    predictCall, lastAlert >>
    /\ UNCHANGED panelVars
    /\ UNCHANGED replayVars
    /\ UNCHANGED helperVars

\* onEpochEnd logging the epoch index of the run, without the offset
onEpochEnd_NoOffset(initialEpoch, epoch) ==
    /\ logs' = Append(logs, [epoch |-> epoch])

\* the onEpochEnd callback handed to trainModel (index.tsx:64-75)
onEpochEnd(initialEpoch, epoch) ==
    /\ logs' = Append(logs, [epoch |-> initialEpoch + epoch])

\* model.fit resumes after tf.nextFrame() and runs to its next yield, or
\* settles.  outcome: "ok", "reject" (fit rejects before doing anything more)
\* or "rejectLate" (fit rejects after the last epoch's callback).
TrainResume(f, outcome) ==
    /\ f \in fits /\ NoMicrotask
    /\ LET m == f.model
           lastBatch == f.batch >= NumBatches
           lastEpoch == f.epoch + 1 >= Epochs
       IN  \/ /\ outcome = "reject"
              /\ lastAlert' = "trainingFailed"
              /\ TrainingFinally(f, m)
              /\ UNCHANGED << logs, weights >>
           \/ /\ outcome = "ok" /\ ~lastBatch
              /\ weights' = [weights EXCEPT ![m] = @ + 1]
              /\ fits' = (fits \ {f}) \cup { [f EXCEPT !.batch = @ + 1] }
              /\ UNCHANGED << logs, isTraining, trainingProgress, conv1Weights,
                              lastAlert >>
           \/ /\ outcome = "ok" /\ lastBatch /\ ~lastEpoch
              /\ onEpochEnd(f.initialEpoch, f.epoch)
              /\ trainingProgress' = ((f.epoch + 1) * 100) \div 5
              /\ conv1Weights' = getConv1Weights(m, weights[m])
              /\ weights' = [weights EXCEPT ![m] = @ + 1]
              /\ fits' = (fits \ {f}) \cup { [f EXCEPT !.epoch = @ + 1, !.batch = 1] }
              /\ UNCHANGED << isTraining, lastAlert >>
           \/ /\ outcome \in {"ok", "rejectLate"} /\ lastBatch /\ lastEpoch
              /\ onEpochEnd(f.initialEpoch, f.epoch)
              /\ lastAlert' = IF outcome = "ok" THEN lastAlert ELSE "trainingFailed"
              /\ UNCHANGED weights
              /\ TrainingFinally(f, m)
    /\ UNCHANGED << model, data, isDataLoading, currentImage, prediction,
                    featureMaps, inputGrid, nextModel, runs, predictPc,
                    predictCall >>
    /\ UNCHANGED panelVars
    /\ UNCHANGED replayVars
    /\ UNCHANGED helperVars

\* handleReset without setPrediction(null)
handleReset_KeepPrediction ==
    /\ Rendered /\ NoMicrotask
    /\ Len(logs) > 0
    /\ ~isTraining
    /\ nextModel <= MaxModels
    /\ model' = nextModel
    /\ nextModel' = nextModel + 1
    /\ logs' = << >>
    /\ featureMaps' = EmptyMaps
    /\ conv1Weights' = getConv1Weights(nextModel, weights[nextModel])
    /\ UNCHANGED << data, isDataLoading, isTraining, currentImage, prediction,
                    trainingProgress, inputGrid, weights, fits, runs, predictPc,
                    predictCall, lastAlert >>
    /\ UNCHANGED panelVars
    /\ UNCHANGED replayVars
    /\ UNCHANGED helperVars

\* handleReset without the isTraining test, behind an enabled button
handleReset_WhileTraining ==
    /\ Rendered /\ NoMicrotask
    /\ Len(logs) > 0
    /\ nextModel <= MaxModels
    /\ model' = nextModel
    /\ nextModel' = nextModel + 1
    /\ logs' = << >>
    /\ prediction' = NoPrediction
    /\ featureMaps' = EmptyMaps
    /\ conv1Weights' = getConv1Weights(nextModel, weights[nextModel])
    /\ UNCHANGED << data, isDataLoading, isTraining, currentImage,
                    trainingProgress, inputGrid, weights, fits, runs, predictPc,
                    predictCall, lastAlert >>
    /\ UNCHANGED panelVars
    /\ UNCHANGED replayVars
    /\ UNCHANGED helperVars

\* handleReset, confirmed (index.tsx:92-103); the button is rendered once the
\* log is non-empty and disabled while training (TrainingPanel.tsx:129-137)
handleReset ==
    /\ Rendered /\ NoMicrotask
    /\ Len(logs) > 0
    /\ ~isTraining
    /\ nextModel <= MaxModels
    /\ model' = nextModel
    /\ nextModel' = nextModel + 1
    /\ logs' = << >>
    /\ prediction' = NoPrediction
    /\ featureMaps' = EmptyMaps
    /\ conv1Weights' = getConv1Weights(nextModel, weights[nextModel])
    /\ UNCHANGED << data, isDataLoading, isTraining, currentImage,
                    trainingProgress, inputGrid, weights, fits, runs, predictPc,
                    predictCall, lastAlert >>
    /\ UNCHANGED panelVars
    /\ UNCHANGED replayVars
    /\ UNCHANGED helperVars

\* handlePredict returning after the advisory when the log is empty
handlePredict_RejectUntrained(probs) ==
    /\ Rendered /\ NoMicrotask
    /\ IF currentImage = NoImage
       THEN /\ lastAlert' = "emptyInput"
            /\ UNCHANGED << predictPc, predictCall >>
       ELSE IF Len(logs) = 0
       THEN /\ lastAlert' = "untrained"
            /\ UNCHANGED << predictPc, predictCall >>
       ELSE /\ lastAlert' = lastAlert
            /\ predictCall' = [model |-> model,
                               processedImage |-> preprocessImage(currentImage),
                               probs |-> probs]
            /\ predictPc' = "awaitPredict"
    /\ UNCHANGED << model, data, isDataLoading, isTraining, logs, currentImage,
                    prediction, featureMaps, trainingProgress, conv1Weights,
                    inputGrid, weights, nextModel, fits, runs >>
    /\ UNCHANGED panelVars
    /\ UNCHANGED replayVars
    /\ UNCHANGED helperVars

\* handlePredict up to its first await (index.tsx:115-129); the Predict
\* button is never disabled (TrainingPanel.tsx:159-164)
handlePredict(probs) ==
    /\ Rendered /\ NoMicrotask
    /\ IF currentImage = NoImage
       THEN /\ lastAlert' = "emptyInput"
            /\ UNCHANGED << predictPc, predictCall >>
       ELSE /\ lastAlert' = IF Len(logs) = 0 THEN "untrained" ELSE lastAlert
            /\ predictCall' = [model |-> model,
                               processedImage |-> preprocessImage(currentImage),
                               probs |-> probs]
            /\ predictPc' = "awaitPredict"
    /\ UNCHANGED << model, data, isDataLoading, isTraining, logs, currentImage,
                    prediction, featureMaps, trainingProgress, conv1Weights,
                    inputGrid, weights, nextModel, fits, runs >>
    /\ UNCHANGED panelVars
    /\ UNCHANGED replayVars
    /\ UNCHANGED helperVars

\* generateFeatureMaps (index.tsx:138-189)
generateFeatureMaps(m, imageData) ==
    featureMaps' = [l \in LayersToVisualize |-> [input |-> imageData, model |-> m]]

\* handlePredict after await predict(...) (index.tsx:130-135)
PredictInstall ==
    /\ predictPc = "awaitPredict"
    /\ prediction' = [label |-> IndexOfMax(predictCall.probs),
                      probabilities |-> predictCall.probs,
                      input |-> predictCall.processedImage]
    /\ generateFeatureMaps(predictCall.model, predictCall.processedImage)
    /\ predictPc' = "awaitMaps"
    /\ UNCHANGED << model, data, isDataLoading, isTraining, logs, currentImage,
                    trainingProgress, conv1Weights, inputGrid, weights,
                    nextModel, fits, runs, predictCall, lastAlert >>
    /\ UNCHANGED panelVars
    /\ UNCHANGED replayVars
    /\ UNCHANGED helperVars

\* handlePredict returns after await generateFeatureMaps(...) (index.tsx:135-136)
PredictDone ==
    /\ predictPc = "awaitMaps"
    /\ predictPc' = "idle"
    /\ predictCall' = NoCall
    /\ UNCHANGED << model, data, isDataLoading, isTraining, logs, currentImage,
                    prediction, featureMaps, trainingProgress, conv1Weights,
                    inputGrid, weights, nextModel, fits, runs, lastAlert >>
    /\ UNCHANGED panelVars
    /\ UNCHANGED replayVars
    /\ UNCHANGED helperVars

-----------------------------------------------------------------------------
(* InputPanel.tsx *)

\* updatePreview (InputPanel.tsx:75-89): downsample the buffer and emit it
updatePreview(buffer) == handleImageReady(Image(buffer))

\* startDrawing (InputPanel.tsx:26-30); its draw(e) sees the isDrawing of
\* the last render, false, and returns
startDrawing ==
    /\ Rendered /\ NoMicrotask
    /\ ~disabled
    /\ ~isDrawing
    /\ isDrawing' = TRUE
    /\ UNCHANGED << canvas, pendingUpload >>
    /\ UNCHANGED demoVars
    /\ UNCHANGED << conv1Weights, inputGrid >>
    /\ UNCHANGED replayVars
    /\ UNCHANGED helperVars

\* draw (InputPanel.tsx:37-62)
draw(stroke) ==
    /\ Rendered /\ NoMicrotask
    /\ isDrawing /\ ~disabled
    /\ canvas' = canvas \cup stroke
    /\ canvas' # canvas
    /\ UNCHANGED << isDrawing, pendingUpload >>
    /\ UNCHANGED demoVars
    /\ UNCHANGED << conv1Weights, inputGrid >>
    /\ UNCHANGED replayVars
    /\ UNCHANGED helperVars

\* stopDrawing (InputPanel.tsx:32-35), on mouseup, mouseout and touchend
stopDrawing ==
    /\ Rendered /\ NoMicrotask
    /\ isDrawing' = FALSE
    /\ updatePreview(canvas)
    /\ UNCHANGED << canvas, pendingUpload >>
    /\ UNCHANGED replayVars
    /\ UNCHANGED helperVars

\* clearCanvas (InputPanel.tsx:64-73); the button is disabled while training
clearCanvas ==
    /\ Rendered /\ NoMicrotask
    /\ ~disabled
    /\ canvas' = {}
    /\ updatePreview(canvas')
    /\ UNCHANGED << isDrawing, pendingUpload >>
    /\ UNCHANGED replayVars
    /\ UNCHANGED helperVars

\* handleUpload (InputPanel.tsx:91-95, 110): a file is chosen and starts to
\* load; the file input is disabled while training
handleUpload(img) ==
    /\ Rendered /\ NoMicrotask
    /\ ~disabled
    /\ pendingUpload = NoImage
    /\ pendingUpload' = img
    /\ UNCHANGED << canvas, isDrawing >>
    /\ UNCHANGED demoVars
    /\ UNCHANGED << conv1Weights, inputGrid >>
    /\ UNCHANGED replayVars
    /\ UNCHANGED helperVars

\* img.onload (InputPanel.tsx:96-109)
UploadOnload ==
    /\ Rendered /\ NoMicrotask
    /\ pendingUpload # NoImage
    /\ canvas' = pendingUpload.fg
    /\ updatePreview(canvas')
    /\ pendingUpload' = NoImage
    /\ UNCHANGED isDrawing
    /\ UNCHANGED replayVars
    /\ UNCHANGED helperVars

Next ==
    \/ \E ok \in BOOLEAN : InitLoaded(ok)
    \/ handleStartTraining
    \/ \E f \in fits, outcome \in {"ok", "reject", "rejectLate"} : TrainResume(f, outcome)
    \/ handleReset
    \/ \E probs \in ProbVectors : handlePredict(probs)
    \/ PredictInstall
    \/ PredictDone
    \/ startDrawing
    \/ \E stroke \in Strokes : draw(stroke)
    \/ stopDrawing
    \/ clearCanvas
    \/ \E img \in Uploads : handleUpload(img)
    \/ UploadOnload

Spec == Init /\ [][Next]_vars

-----------------------------------------------------------------------------
(* ConvAnimation: index.tsx:247-518, mounted by StructurePanel.tsx:103-114 *)

\* the props (StructurePanel.tsx:105-109)
inputData == inputGrid
kernel == conv1Weights.kernel
bias == conv1Weights.bias

\* index.tsx:267-276
inputH == Cardinality(DOMAIN inputData)
inputW == Cardinality(DOMAIN inputData[0])
kernelH == Cardinality(DOMAIN kernel)
kernelW == Cardinality(DOMAIN kernel[0])
outputH == inputH - kernelH + 1

\* an output as wide as the input
outputW_Full == inputW

outputW == inputW - kernelW + 1
totalSteps == outputH * outputW

\* index.tsx:278-280
currentY == step \div outputW
currentX == step % outputW

\* the two nested loops of calculateResult after n iterations of the body,
\* in loop order (i outer, j inner)
RECURSIVE ResultLoop(_)
ResultLoop(n) ==
    IF n = 0
    THEN 0
    ELSE LET i == (n - 1) \div kernelW
             j == (n - 1) % kernelW
             val == inputData[currentY + i][currentX + j]
             w == kernel[i][j]
         IN  ResultLoop(n - 1) + val * w

\* the loops reading the input transposed
RECURSIVE ResultLoop_Transposed(_)
ResultLoop_Transposed(n) ==
    IF n = 0
    THEN 0
    ELSE LET i == (n - 1) \div kernelW
             j == (n - 1) % kernelW
             val == inputData[currentY + j][currentX + i]
             w == kernel[i][j]
         IN  ResultLoop_Transposed(n - 1) + val * w

\* the loops of calculateResult (index.tsx:287-294)
ResultSum(n) == ResultLoop(n)

\* calculateResult (index.tsx:283-300)
calculateResult ==
    LET sum == ResultSum(kernelH * kernelW) + bias
    IN  [sum |-> sum,
         preActivation |-> sum,
         final |-> IF activation = "relu" THEN Max({0, sum}) ELSE sum]

\* the loops of the output grid cell (i, j) after n iterations (index.tsx:486-491)
RECURSIVE CellLoop(_, _, _)
CellLoop(i, j, n) ==
    IF n = 0
    THEN 0
    ELSE LET ki == (n - 1) \div kernelW
             kj == (n - 1) % kernelW
         IN  CellLoop(i, j, n - 1) + inputData[i + ki][j + kj] * kernel[ki][kj]

\* the value of output grid cell (i, j) (index.tsx:477-494)
cellVal(i, j) ==
    LET isCurrent == i = currentY /\ j = currentX
        isPast == i < currentY \/ (i = currentY /\ j < currentX)
    IN  IF isPast \/ isCurrent
        THEN LET s == CellLoop(i, j, kernelH * kernelW) + bias
             IN  IF activation = "relu" THEN Max({0, s}) ELSE s
        ELSE 0

\* the animation effect (index.tsx:305-319) after a render with these values:
\* the interval of the previous render is cleared, a new one set if playing
AnimationEffect(playing, ms) ==
    IF playing THEN [delay |-> ms] ELSE NoTimer

\* the drawable contents of the canvas, and the weights of a model before
\* and after one run of training
ReplayImages == { Image(c) : c \in {{}} \cup Strokes \cup { u.fg : u \in Uploads }
                                  \cup { u.fg \cup t : u \in Uploads, t \in Strokes } }
ReplayWeights == { getConv1Weights(1, v) : v \in {0, Epochs * NumBatches} }

\* the controller with image img emitted and model 1 trained for v steps,
\* ConvAnimation just mounted
InitReplay ==
    /\ model = 1
    /\ nextModel = 2
    /\ data = "loaded"
    /\ isDataLoading = FALSE
    /\ isTraining = FALSE
    /\ prediction = NoPrediction
    /\ featureMaps = EmptyMaps
    /\ fits = {}
    /\ predictPc = "idle"
    /\ predictCall = NoCall
    /\ lastAlert = "none"
    /\ \E v \in {0, Epochs * NumBatches} :
          /\ weights = [m \in 1..MaxModels |-> IF m = 1 THEN v ELSE 0]
          /\ conv1Weights = getConv1Weights(1, v)
          /\ logs = IF v = 0 THEN << >> ELSE [e \in 1..Epochs |-> [epoch |-> e - 1]]
          /\ runs = IF v = 0 THEN 0 ELSE 1
          /\ trainingProgress = IF v = 0 THEN 0 ELSE 100
    /\ \E img \in ReplayImages :
          /\ currentImage = img
          /\ canvas = img.fg
          /\ inputGrid = imageDataToGrid(img, GridSize)
    /\ isDrawing = FALSE
    /\ pendingUpload = NoImage
    /\ mounted = TRUE
    /\ activation \in {"relu", "none"}
    /\ step = 0
    /\ isPlaying = FALSE
    /\ speed = DefaultSpeed
    /\ timer = NoTimer
    /\ interacting = TRUE
    /\ NoHelper

ReplayFrame ==
    /\ UNCHANGED demoVars
    /\ UNCHANGED panelVars
    /\ UNCHANGED helperVars

\* the interval callback without the clamp at the last step
Tick_NoClamp ==
    /\ timer # NoTimer
    /\ step' = step + 1
    /\ UNCHANGED isPlaying
    /\ timer' = AnimationEffect(isPlaying', speed)
    /\ UNCHANGED << mounted, activation, speed, interacting, conv1Weights, inputGrid >>
    /\ ReplayFrame

\* the interval callback without setIsPlaying(false)
Tick_NoStop ==
    /\ timer # NoTimer
    /\ step' = IF step >= totalSteps - 1 THEN step ELSE step + 1
    /\ UNCHANGED isPlaying
    /\ timer' = AnimationEffect(isPlaying', speed)
    /\ UNCHANGED << mounted, activation, speed, interacting, conv1Weights, inputGrid >>
    /\ ReplayFrame

\* the interval callback (index.tsx:308-316), then the effect
Tick ==
    /\ timer # NoTimer
    /\ IF step >= totalSteps - 1
       THEN /\ isPlaying' = FALSE
            /\ step' = step
       ELSE /\ step' = step + 1
            /\ UNCHANGED isPlaying
    /\ timer' = AnimationEffect(isPlaying', speed)
    /\ UNCHANGED << mounted, activation, speed, interacting, conv1Weights, inputGrid >>
    /\ ReplayFrame

\* the play / pause button (index.tsx:351-356), then the effect
TogglePlay ==
    /\ mounted /\ interacting
    /\ isPlaying' = ~isPlaying
    /\ timer' = AnimationEffect(isPlaying', speed)
    /\ UNCHANGED << mounted, activation, step, speed, interacting, conv1Weights, inputGrid >>
    /\ ReplayFrame

\* the reset button (index.tsx:357-362); no dependency of the effect changes
ResetStep ==
    /\ mounted /\ interacting
    /\ step # 0
    /\ step' = 0
    /\ UNCHANGED << mounted, activation, isPlaying, speed, timer, interacting,
                    conv1Weights, inputGrid >>
    /\ ReplayFrame

\* the speed select (index.tsx:363-371), then the effect
SetSpeed(ms) ==
    /\ mounted /\ interacting
    /\ ms # speed
    /\ speed' = ms
    /\ timer' = AnimationEffect(isPlaying, speed')
    /\ UNCHANGED << mounted, activation, step, isPlaying, interacting, conv1Weights, inputGrid >>
    /\ ReplayFrame

\* unmount that leaves the interval running
Unmount_NoCleanup ==
    /\ mounted /\ interacting
    /\ mounted' = FALSE
    /\ UNCHANGED << activation, step, isPlaying, speed, timer, interacting,
                    conv1Weights, inputGrid >>
    /\ ReplayFrame

\* the view is torn down: the cleanup of the effect runs (index.tsx:318)
Unmount ==
    /\ mounted /\ interacting
    /\ mounted' = FALSE
    /\ timer' = NoTimer
    /\ UNCHANGED << activation, step, isPlaying, speed, interacting,
                    conv1Weights, inputGrid >>
    /\ ReplayFrame

\* a new instance is mounted (index.tsx:263-265)
Mount ==
    /\ ~mounted /\ interacting
    /\ mounted' = TRUE
    /\ step' = 0
    /\ isPlaying' = FALSE
    /\ speed' = DefaultSpeed
    /\ timer' = NoTimer
    /\ UNCHANGED << activation, interacting, conv1Weights, inputGrid >>
    /\ ReplayFrame

\* the parent renders with a new input grid or new weights
\* (StructurePanel.tsx:105-109); totalSteps keeps its value
PropsChange(grid, w) ==
    /\ mounted
    /\ << grid, w >> # << inputGrid, conv1Weights >>
    /\ inputGrid' = grid
    /\ conv1Weights' = w
    /\ UNCHANGED replayVars
    /\ ReplayFrame

\* the user stops touching the replay controls
UserLeaves ==
    /\ interacting
    /\ interacting' = FALSE
    /\ UNCHANGED << mounted, activation, step, isPlaying, speed, timer,
                    conv1Weights, inputGrid >>
    /\ ReplayFrame

NextReplay ==
    \/ Tick
    \/ TogglePlay
    \/ ResetStep
    \/ \E ms \in {1000, 500, 100} : SetSpeed(ms)
    \/ Unmount
    \/ Mount
    \/ \E img \in ReplayImages, w \in ReplayWeights :
          PropsChange(imageDataToGrid(img, GridSize), w)
    \/ UserLeaves

SpecReplay == InitReplay /\ [][NextReplay]_vars

\* setInterval keeps firing its callback while the interval is live
SpecReplayLive == SpecReplay /\ WF_vars(Tick)

-----------------------------------------------------------------------------
(* handlePredict on every shape of output of the network *)

\* output vectors with the maximum at every index, alone or shared with the
\* first, the middle or the last entry, and the vector of equal entries
ProbInputs ==
    { [i \in 1..10 |-> IF i = a THEN 3 ELSE IF i = b THEN v ELSE 1] :
        a \in 1..10, b \in {1, 5, 10}, v \in {0, 3} }
    \cup { [i \in 1..10 |-> 1] }

\* the controller with the data loaded and a stroke emitted by the panel
InitPredict ==
    /\ model = 1
    /\ nextModel = 2
    /\ weights = [m \in 1..MaxModels |-> 0]
    /\ conv1Weights = getConv1Weights(1, 0)
    /\ data = "loaded"
    /\ isDataLoading = FALSE
    /\ isTraining = FALSE
    /\ logs = << >>
    /\ \E stroke \in Strokes :
          /\ canvas = stroke
          /\ currentImage = Image(stroke)
          /\ inputGrid = imageDataToGrid(Image(stroke), GridSize)
    /\ prediction = NoPrediction
    /\ featureMaps = EmptyMaps
    /\ trainingProgress = 0
    /\ fits = {}
    /\ runs = 0
    /\ predictPc = "idle"
    /\ predictCall = NoCall
    /\ lastAlert = "none"
    /\ isDrawing = FALSE
    /\ pendingUpload = NoImage
    /\ ReplayUnmounted
    /\ NoHelper

NextPredict ==
    \/ \E probs \in ProbInputs : handlePredict(probs)
    \/ PredictInstall
    \/ PredictDone

SpecPredict == InitPredict /\ [][NextPredict]_vars

-----------------------------------------------------------------------------
(* The helpers of cnn-model.ts, called on their own *)

programVars == << demoVars, conv1Weights, inputGrid, panelVars, replayVars >>

\* the largest side of the small images handed to imageDataToGrid
MaxSide == 5

Outline(x0, y0, x1, y1) ==
    { p \in Rect(x0, y0, x1, y1) : p[1] \in {x0, x1} \/ p[2] \in {y0, y1} }

\* 28 x 28 images with a foreground bounding box of every width and height,
\* filled and hollow, and blank images of several sizes
PreImages ==
    { Image(Rect((IMAGE_WIDTH - w) \div 3, (IMAGE_HEIGHT - h) \div 2,
                 (IMAGE_WIDTH - w) \div 3 + w - 1, (IMAGE_HEIGHT - h) \div 2 + h - 1)) :
        w \in 1..IMAGE_WIDTH, h \in 1..IMAGE_HEIGHT }
    \cup
    { Image(Outline(IMAGE_WIDTH - w, 0, IMAGE_WIDTH - 1, h - 1)) :
        w \in 1..IMAGE_WIDTH, h \in 1..IMAGE_HEIGHT }
    \cup
    { [width |-> w, height |-> h, fg |-> {}] :
        w \in {1, GridSize, IMAGE_WIDTH}, h \in {1, GridSize, IMAGE_HEIGHT} }

\* images of every size up to MaxSide x MaxSide, two patterns each, and the
\* images the panel can emit
GridImages ==
    { [width |-> w, height |-> h,
       fg |-> { q \in Rect(0, 0, w - 1, h - 1) : (q[1] + 2 * q[2]) % 3 = k }] :
        w \in 1..MaxSide, h \in 1..MaxSide, k \in {0, 1} }
    \cup ReplayImages

HelperCalls ==
    { [fn |-> "preprocessImage", imageData |-> img] : img \in PreImages }
    \cup
    { [fn |-> "imageDataToGrid", imageData |-> img, size |-> n] :
        img \in { g \in GridImages : g.width <= MaxSide }, n \in 1..(MaxSide + 1) }
    \cup
    { [fn |-> "imageDataToGrid", imageData |-> img, size |-> GridSize] :
        img \in ReplayImages }

InitHelpers ==
    /\ InitDemo /\ InitPanel /\ ReplayUnmounted
    /\ helperCall \in HelperCalls
    /\ helperRet = NoCall

\* preprocessImage(imageData) returns
CallPreprocessImage ==
    /\ helperCall # NoCall /\ helperRet = NoCall
    /\ helperCall.fn = "preprocessImage"
    /\ helperRet' = [value |-> preprocessImage(helperCall.imageData)]
    /\ UNCHANGED helperCall
    /\ UNCHANGED programVars

\* imageDataToGrid(imageData, size) returns
CallImageDataToGrid ==
    /\ helperCall # NoCall /\ helperRet = NoCall
    /\ helperCall.fn = "imageDataToGrid"
    /\ helperRet' = [value |-> imageDataToGrid(helperCall.imageData, helperCall.size)]
    /\ UNCHANGED helperCall
    /\ UNCHANGED programVars

NextHelpers ==
    \/ CallPreprocessImage
    \/ CallImageDataToGrid

SpecHelpers == InitHelpers /\ [][NextHelpers]_vars

-----------------------------------------------------------------------------
(* Properties of the controller, checked under Spec *)

\* C1: in every reachable state a non-null prediction and any non-empty
\* feature maps were computed from the preprocessed form of the current
\* image
C1_ResultOfCurrentImage ==
    /\ prediction # NoPrediction =>
          /\ currentImage # NoImage
          /\ prediction.input = preprocessImage(currentImage)
    /\ \A l \in DOMAIN featureMaps :
          /\ currentImage # NoImage
          /\ featureMaps[l].input = preprocessImage(currentImage)

\* a prediction and feature maps are installed for a drawn image that
\* preprocessing has moved
C1_Witness ==
    /\ prediction # NoPrediction
    /\ featureMaps # EmptyMaps
    /\ currentImage.fg # {}
    /\ prediction.input # currentImage

\* C2: while a train() call is in progress no handlePredict call is in
\* progress on the model
C2_NoPredictWhileTraining ==
    isTraining => predictPc = "idle"

\* C3: at most one train() call is outstanding at any time
C3_OneTrainOutstanding ==
    Cardinality(fits) <= 1

\* a second train() call is in flight after the first has settled
C3_Witness ==
    /\ Cardinality(fits) = 1
    /\ runs = 2
    /\ isTraining

\* C4: the epoch indices of the training log are exactly 0, 1, ..., len - 1
\* in order
C4_LogEpochsContiguous ==
    \A i \in 1..Len(logs) : logs[i].epoch = i - 1

\* two runs have logged, the first one having failed part-way
C4_Witness ==
    /\ runs = 2
    /\ fits = {}
    /\ Len(logs) > Epochs
    /\ Len(logs) < 2 * Epochs

\* C5: a step that installs a new model happens only while no training is
\* in progress, installs a model not used before with fresh weights, and
\* leaves the log empty, the prediction null and the feature maps empty
C5_ResetClearsAll ==
    [][ model' # model =>
          /\ ~isTraining /\ ~isTraining'
          /\ model' = nextModel
          /\ weights'[model'] = 0
          /\ conv1Weights' = getConv1Weights(model', 0)
          /\ logs' = << >>
          /\ prediction' = NoPrediction
          /\ featureMaps' = EmptyMaps ]_vars

\* a reset has been taken after training, with an image present
C5_Witness ==
    /\ model = 2
    /\ weights[1] > Epochs
    /\ currentImage # NoImage
    /\ logs = << >>
    /\ prediction = NoPrediction

\* nothing is drawn: no image was emitted, or a background-only one
NoContent == currentImage = NoImage \/ currentImage.fg = {}

\* C14: while there is no drawn or uploaded content, a request for a
\* prediction raises the empty-input prompt and starts nothing, no
\* handlePredict call is past its entry check, and the prediction and the
\* feature maps are empty
C14_EmptyInputRejected ==
    /\ [](NoContent => /\ predictPc = "idle"
                       /\ prediction = NoPrediction
                       /\ featureMaps = EmptyMaps)
    /\ [][ (NoContent /\ \E probs \in ProbVectors : handlePredict(probs)) =>
              /\ lastAlert' = "emptyInput"
              /\ predictPc' = "idle"
              /\ prediction' = prediction
              /\ featureMaps' = featureMaps ]_vars

\* C15: a request for a prediction with an image present is never rejected:
\* it goes on to the forward pass, raising the untrained-model advisory if
\* the log is empty and no alert otherwise, and the forward pass installs a
\* prediction with a label in 0..9
C15_UntrainedAdvisory ==
    /\ [][ (currentImage # NoImage /\ \E probs \in ProbVectors : handlePredict(probs)) =>
              /\ predictPc' = "awaitPredict"
              /\ Len(logs) = 0 => lastAlert' = "untrained"
              /\ Len(logs) > 0 => lastAlert' = lastAlert ]_vars
    /\ [][ (predictPc = "awaitPredict" /\ predictPc' # predictPc) =>
              /\ prediction' # NoPrediction
              /\ prediction'.label \in 0..9 ]_vars

\* a prediction was installed on a model with an empty log, after the
\* advisory
C15_Witness ==
    /\ Len(logs) = 0
    /\ weights[model] = 0
    /\ lastAlert = "untrained"
    /\ prediction # NoPrediction
    /\ currentImage.fg # {}

\* a prediction was requested with a non-empty log: no advisory
C15_WitnessTrained ==
    /\ Len(logs) > 0
    /\ lastAlert = "none"
    /\ prediction # NoPrediction

\* C16: when the load of the dataset fails the failure is alerted, and
\* while the data is missing no training run and no prediction is in
\* progress and the model, the log and the prediction are as constructed
C16_LoadFailureBlocks ==
    /\ [][ (isDataLoading /\ ~isDataLoading' /\ data' = "null") =>
              lastAlert' = "dataLoadFailed" ]_vars
    /\ []((~isDataLoading /\ data = "null") =>
             /\ ~isTraining /\ fits = {}
             /\ predictPc = "idle"
             /\ model = 1 /\ weights[model] = 0
             /\ logs = << >>
             /\ prediction = NoPrediction)

\* C17: a step in which the fit call rejects leaves training not in
\* progress and no call in flight, and the log then is the log before the
\* step, plus at most the entry of the epoch just completed: the entries
\* before the run followed by the k <= 5 entries of the run; no step taken
\* while training removes or alters an entry
C17_FitRejectionKeepsLogs ==
    /\ [][ \A f \in fits :
              (TrainResume(f, "reject") \/ TrainResume(f, "rejectLate")) =>
                 /\ ~isTraining'
                 /\ fits' = {}
                 /\ lastAlert' = "trainingFailed"
                 /\ Len(logs') >= Len(logs)
                 /\ SubSeq(logs', 1, Len(logs)) = logs
                 /\ Len(logs') - f.initialEpoch \in 0..Epochs
                 /\ \A i \in (f.initialEpoch + 1)..Len(logs') :
                       logs'[i].epoch = i - 1 ]_vars
    /\ [][ isTraining =>
              /\ Len(logs') >= Len(logs)
              /\ SubSeq(logs', 1, Len(logs)) = logs ]_vars

\* the second run has failed after two of its epochs, the first having
\* completed
C17_Witness ==
    /\ lastAlert = "trainingFailed"
    /\ ~isTraining
    /\ fits = {}
    /\ runs = 2
    /\ Len(logs) = Epochs + 2

\* C19: the grid handed to the convolution replay is the centered 10 x 10
\* window of the preprocessed form of the current image
C19_GridOfCanonicalImage ==
    /\ currentImage = NoImage => inputGrid = NoGrid
    /\ currentImage # NoImage =>
          inputGrid = imageDataToGrid(preprocessImage(currentImage), GridSize)

\* C18 (under SpecPredict): the label of an installed prediction is an
\* index in 0..9 whose entry is the maximum of the probability vector, and
\* no smaller index has an entry that large
C18_LabelIsFirstMax ==
    prediction # NoPrediction =>
        LET p == prediction.probabilities
            label == prediction.label
        IN  /\ Len(p) = 10
            /\ label \in 0..9
            /\ \A i \in 1..10 : p[i] <= p[label + 1]
            /\ \A i \in 1..label : p[i] < p[label + 1]

\* a prediction is installed whose maximum is shared by the fifth and the
\* last entry
C18_Witness ==
    /\ prediction # NoPrediction
    /\ predictPc = "idle"
    /\ prediction.probabilities[5] = 3
    /\ prediction.probabilities[10] = 3
    /\ prediction.label = 4

\* C21: no step taken while training is in progress changes the drawing
\* buffer or the current image: no stroke, clear or upload takes effect and
\* no image is emitted between the start of train() and its end
C21_InputFrozenWhileTraining ==
    [][ (isTraining /\ isTraining') =>
           /\ canvas' = canvas
           /\ currentImage' = currentImage ]_vars

\* C22: whenever no training is in progress the kernel and the bias given
\* to the replay are the first filter and the first bias of conv1 of the
\* current model; a step that appends an epoch to the log fetches them as
\* they are at the end of that epoch
C22_ReplayWeightsCurrent ==
    /\ [](~isTraining => conv1Weights = getConv1Weights(model, weights[model]))
    /\ [][ Len(logs') > Len(logs) =>
              conv1Weights' = getConv1Weights(model, weights[model]) ]_vars

\* a run has failed part-way on a model installed by a reset
C22_Witness ==
    /\ ~isTraining
    /\ model = 2
    /\ weights[model] > 0
    /\ lastAlert = "trainingFailed"
    /\ conv1Weights # getConv1Weights(model, 0)

\* C23: while a train() call is outstanding no step changes the model
\* handle, hands out a new model or shortens the log, and the model every
\* outstanding call trains is the current model
C23_NoResetWhileTraining ==
    /\ [](\A f \in fits : f.model = model /\ isTraining)
    /\ [][ (isTraining \/ fits # {}) =>
              /\ model' = model
              /\ nextModel' = nextModel
              /\ Len(logs') >= Len(logs) ]_vars

\* a second run is in progress, with the reset button on screen
C23_Witness ==
    /\ isTraining
    /\ fits # {}
    /\ runs = 2
    /\ Len(logs) > Epochs
    /\ nextModel <= MaxModels

-----------------------------------------------------------------------------
(* Properties of the convolution replay, checked under SpecReplay *)

\* C6: the step index stays in 0 .. totalSteps - 1; a step that moves it
\* anywhere but to 0 adds exactly 1; at the last step it changes only by a
\* reset of the user, so an advance there leaves it unchanged
C6_StepSaturates ==
    /\ [](mounted => (0 <= step /\ step <= totalSteps - 1))
    /\ [][ (mounted /\ step' # step /\ step' # 0) => step' = step + 1 ]_vars
    /\ [][ (mounted /\ step = totalSteps - 1 /\ step' # step) =>
              (interacting /\ step' = 0) ]_vars

\* auto-advance has reached the last step with nobody at the controls, and
\* the tick after it has stopped the playback
C6_Witness ==
    /\ mounted
    /\ ~interacting
    /\ step = totalSteps - 1
    /\ totalSteps = 36
    /\ ~isPlaying

\* C7: once auto-advance runs and the user does not interact further, the
\* step index reaches totalSteps - 1 and the playing flag becomes false;
\* from then on no step changes the step index
C7_AutoAdvanceStops ==
    /\ (mounted /\ ~interacting /\ isPlaying) ~>
          (step = totalSteps - 1 /\ ~isPlaying)
    /\ [][ (mounted /\ ~interacting /\ ~isPlaying) => step' = step ]_vars

\* playback was left running from a step in the middle
C7_Witness ==
    /\ mounted
    /\ ~interacting
    /\ isPlaying
    /\ step > 0
    /\ step < totalSteps - 1
    /\ timer # NoTimer

\* C8: a reset of the step index to 0 while auto-advance is running stops
\* auto-advance: the interval is cancelled and the playing flag is false
C8_ResetStopsAutoAdvance ==
    [][ (mounted /\ mounted' /\ isPlaying /\ step # 0 /\ step' = 0) =>
           (timer' = NoTimer /\ ~isPlaying') ]_vars

\* C9: after teardown no interval is live, and neither the step index nor
\* the playing flag of the disposed view changes
C9_TeardownCancelsTimer ==
    /\ [](~mounted => timer = NoTimer)
    /\ [][ (~mounted /\ ~mounted') => (step' = step /\ isPlaying' = isPlaying) ]_vars

\* the view was torn down while playing, part-way through
C9_Witness ==
    /\ ~mounted
    /\ isPlaying
    /\ step > 0
    /\ speed # DefaultSpeed

\* the sum over the window anchored at (row, col), as a sum over the set of
\* kernel positions
RECURSIVE SumOver(_, _, _)
SumOver(P, row, col) ==
    IF P = {}
    THEN 0
    ELSE LET p == CHOOSE q \in P : TRUE
         IN  inputData[row + p[1]][col + p[2]] * kernel[p[1]][p[2]]
               + SumOver(P \ {p}, row, col)

ConvAt(row, col) ==
    LET x == SumOver((0..(kernelH - 1)) \X (0..(kernelW - 1)), row, col) + bias
    IN  IF activation = "relu" THEN (IF x > 0 THEN x ELSE 0) ELSE x

\* C10: at every step S, with row = S div outputWidth and col = S mod
\* outputWidth, the reported value and the value of output grid cell
\* (row, col) are activation(sum of input * kernel over the window + bias);
\* at the last step every cell of the output grid shows that quantity
C10_ReplayValue ==
    mounted =>
       LET row == step \div outputW
           col == step % outputW
       IN  /\ calculateResult.final = ConvAt(row, col)
           /\ cellVal(row, col) = ConvAt(row, col)
           /\ step = totalSteps - 1 =>
                 \A i \in 0..(outputH - 1), j \in 0..(outputW - 1) :
                    cellVal(i, j) = ConvAt(i, j)

\* a step where the window sum is negative in one mode and clamped in the other
C10_Witness ==
    /\ mounted
    /\ step > outputW
    /\ activation = "relu"
    /\ calculateResult.preActivation < 0
    /\ calculateResult.final = 0

\* the same with the identity activation
C10_WitnessNone ==
    /\ mounted
    /\ step > outputW
    /\ activation = "none"
    /\ calculateResult.final < 0

\* C24: in every state of the mounted replay the window anchored at
\* (step div outputWidth, step mod outputWidth) lies inside the input grid,
\* and every cell calculateResult reads is a cell of the grid and of the
\* kernel
C24_WindowInsideInput ==
    mounted =>
       LET row == step \div outputW
           col == step % outputW
       IN  /\ row >= 0 /\ col >= 0
           /\ row + kernelH <= inputH
           /\ col + kernelW <= inputW
           /\ \A i \in 0..(kernelH - 1), j \in 0..(kernelW - 1) :
                 /\ currentY + i \in DOMAIN inputData
                 /\ currentX + j \in DOMAIN inputData[currentY + i]
                 /\ i \in DOMAIN kernel /\ j \in DOMAIN kernel[i]

\* the grid and the kernel were replaced while the replay stood at its last
\* step
C24_Witness ==
    /\ mounted
    /\ step = totalSteps - 1
    /\ inputGrid # imageDataToGrid(currentImage, GridSize)
    /\ conv1Weights # getConv1Weights(model, weights[model])

-----------------------------------------------------------------------------
(* Properties of the helpers, checked under SpecHelpers *)

\* the call of helper fn has returned
Returned(fn) ==
    /\ helperCall # NoCall
    /\ helperRet # NoCall
    /\ helperCall.fn = fn

\* C11: for a 28 x 28 image with at least one pixel above the threshold and
\* a foreground bounding box of w by h, preprocessImage returns a 28 x 28
\* image; the scaled size floor(w * s) by floor(h * s), s = min(20 / w,
\* 20 / h), is between 1 and 20 on each axis; the foreground bounding box of
\* the result is non-empty, starts at offset floor((28 - size) / 2), has the
\* scaled size, lies inside the central 20 x 20 region and is centered
\* there within 1 pixel per axis
C11_CenteredInBox ==
    (/\ Returned("preprocessImage")
     /\ helperCall.imageData.width = 28 /\ helperCall.imageData.height = 28
     /\ helperCall.imageData.fg # {}) =>
        LET src == helperCall.imageData.fg
            out == helperRet.value
            w == Max({ q[1] : q \in src }) - Min({ q[1] : q \in src }) + 1
            h == Max({ q[2] : q \in src }) - Min({ q[2] : q \in src }) + 1
            sizeX == IF w >= h THEN 20 ELSE (w * 20) \div h
            sizeY == IF h >= w THEN 20 ELSE (h * 20) \div w
        IN  /\ out.width = 28 /\ out.height = 28
            /\ sizeX \in 1..20 /\ sizeY \in 1..20
            /\ out.fg # {}
            /\ LET left == Min({ q[1] : q \in out.fg })
                   right == Max({ q[1] : q \in out.fg })
                   top == Min({ q[2] : q \in out.fg })
                   bottom == Max({ q[2] : q \in out.fg })
               IN  /\ left = (28 - sizeX) \div 2 /\ right - left + 1 = sizeX
                   /\ top = (28 - sizeY) \div 2 /\ bottom - top + 1 = sizeY
                   /\ 4 <= left /\ right <= 23 /\ 4 <= top /\ bottom <= 23
                   /\ left - (27 - right) \in -1..1
                   /\ top - (27 - bottom) \in -1..1

\* C12: preprocessImage applied to an image with no pixel above the
\* threshold returns an image with the dimensions and pixels of its input,
\* and no call of preprocessImage changes the image it was given
C12_BlankIdentity ==
    /\ []((Returned("preprocessImage") /\ helperCall.imageData.fg = {}) =>
            helperRet.value = helperCall.imageData)
    /\ [][ (helperCall # NoCall /\ helperCall.fn = "preprocessImage") =>
              helperCall'.imageData = helperCall.imageData ]_vars

\* the call has returned for a blank image that is not 28 x 28
C12_Witness ==
    /\ Returned("preprocessImage")
    /\ helperCall.imageData.fg = {}
    /\ helperCall.imageData.width = GridSize
    /\ helperCall.imageData.height = 1
    /\ helperRet.value.width = GridSize

\* C13: for an image of W x H and a window size N with 1 <= N <= min(W, H),
\* imageDataToGrid returns exactly N rows of N values, each in [0, 1]; entry
\* (i, j) is the first channel of pixel (floor((W - N) / 2) + j,
\* floor((H - N) / 2) + i) divided by 255, that pixel is a pixel of the
\* image, and every index read lies inside the buffer
C13_CenteredWindow ==
    (/\ Returned("imageDataToGrid")
     /\ helperCall.size >= 1
     /\ helperCall.size <= helperCall.imageData.width
     /\ helperCall.size <= helperCall.imageData.height) =>
        LET img == helperCall.imageData
            N == helperCall.size
            grid == helperRet.value
        IN  /\ DOMAIN grid = 0..(N - 1)
            /\ \A i \in 0..(N - 1) :
                  /\ DOMAIN grid[i] = 0..(N - 1)
                  /\ \A j \in 0..(N - 1) :
                        LET x == (img.width - N) \div 2 + j
                            y == (img.height - N) \div 2 + i
                        IN  /\ x \in 0..(img.width - 1)
                            /\ y \in 0..(img.height - 1)
                            /\ grid[i][j] = (IF << x, y >> \in img.fg THEN 1 ELSE 0)
                            /\ grid[i][j] \in 0..1
                            /\ GridIdx(img, N, i, j) \in 0..(img.width * img.height * 4 - 1)

\* a 3 x 3 window of a 5 x 4 image has been returned, with both values in it
C13_Witness ==
    /\ Returned("imageDataToGrid")
    /\ helperCall.size = 3
    /\ helperCall.imageData.width = 5
    /\ helperCall.imageData.height = 4
    /\ \E i, j \in 0..2 : helperRet.value[i][j] = 1
    /\ \E i, j \in 0..2 : helperRet.value[i][j] = 0

\* C20: a call of imageDataToGrid with a window size larger than the width
\* or the height of the image returns an error, not a grid, and reads no
\* index outside the buffer of the image
C20_OversizeRejected ==
    (/\ Returned("imageDataToGrid")
     /\ \/ helperCall.size > helperCall.imageData.width
        \/ helperCall.size > helperCall.imageData.height) =>
        LET img == helperCall.imageData
            N == helperCall.size
        IN  /\ "error" \in DOMAIN helperRet
            /\ "value" \notin DOMAIN helperRet
            /\ \A i, j \in 0..(N - 1) :
                  GridIdx(img, N, i, j) \in 0..(img.width * img.height * 4 - 1)

=============================================================================
